---- MODULE Spec2Model ----
(***************************************************************************)
(* Gerald BNPL gateway: transaction analysis, risk scoring, credit-limit   *)
(* policy, installment planning, the POST /v1/decision handler and the     *)
(* ledger webhook client with its retry loop.                              *)
(*                                                                         *)
(* Money is in cents (integers).  Dates are day ordinals (integers), so    *)
(* date + timedelta(days=n) is d + n and (end - start).days is end - start.*)
(* Python floats are modelled as exact rationals <<num, den>> with den > 0.*)
(***************************************************************************)
EXTENDS Integers, Sequences, FiniteSets, TLC

VARIABLES
    max_retries,    \* LedgerClient.max_retries (settings.webhook_max_retries)
    backoff_base,   \* LedgerClient.backoff_base (settings.webhook_backoff_base)
    metrics,        \* "up", or "failing": a call into prometheus_client may raise
    pc,             \* per request: position of the create_decision handler
    request,        \* per request: the DecisionRequest body
    bank,           \* per request: what BankClient.get_transactions produced
    response,       \* per request: the HTTP response of the handler
    session,        \* per request: rows flushed in the request's db session
    db,             \* committed rows: decisions and plans
    delivery,       \* per request: state of its send_approval_event task
    arg,            \* arguments of the pure function under analysis
    ret             \* its result, or NoResult before the call

vars == <<max_retries, backoff_base, metrics, pc, request, bank, response, session, db, delivery, arg, ret>>

\* Python's None where a value may be absent: an optional value is the empty
\* sequence or the sequence of the one value.
None == <<>>
Some(x) == <<x>>
NoResult == [status |-> "not called"]

-----------------------------------------------------------------------------
(* Rationals standing for Python floats *)

\* Fractions are kept in lowest terms, which keeps the numbers small.
RECURSIVE GCD(_, _)
GCD(a, b) == IF b = 0 THEN a ELSE GCD(b, a % b)

Abs(n) == IF n < 0 THEN -n ELSE n

Rat(n, d) == LET g == GCD(Abs(n), d) IN <<n \div g, d \div g>>
RatLess(a, b) == a[1] * b[2] < b[1] * a[2]
RatLeq(a, b) == a[1] * b[2] <= b[1] * a[2]
RatMin(a, b) == IF RatLess(b, a) THEN b ELSE a
RatAdd(a, b) ==
    LET g == GCD(a[2], b[2])
    IN Rat(a[1] * (b[2] \div g) + b[1] * (a[2] \div g), (a[2] \div g) * b[2])
RatMul(a, b) ==
    LET x == Rat(a[1], b[2])
        y == Rat(b[1], a[2])
    IN <<x[1] * y[1], x[2] * y[2]>>

RECURSIVE SumSeq(_)
SumSeq(s) == IF s = <<>> THEN 0 ELSE s[1] + SumSeq(Tail(s))

-----------------------------------------------------------------------------
(* domain/installments.py *)

\* Mutant: the remainder is dropped instead of being added to the last installment.
generate_installment_plan_no_remainder(amount_cents, num_installments, interval_days, start_date, today) ==
    IF amount_cents <= 0 THEN [status |-> "ok", value |-> <<>>]
    ELSE IF num_installments = 0 THEN [status |-> "ZeroDivisionError"]
    ELSE LET start == IF start_date = None THEN today + interval_days ELSE start_date[1]
             n == IF num_installments < 0 THEN 0 ELSE num_installments
         IN [status |-> "ok",
             value |-> [j \in 1..n |->
                 [due_date |-> start + (j - 1) * interval_days,
                  amount_cents |-> amount_cents \div num_installments]]]

\* Mutant: the remainder goes to the first installment.
generate_installment_plan_remainder_first(amount_cents, num_installments, interval_days, start_date, today) ==
    IF amount_cents <= 0 THEN [status |-> "ok", value |-> <<>>]
    ELSE IF num_installments = 0 THEN [status |-> "ZeroDivisionError"]
    ELSE LET start == IF start_date = None THEN today + interval_days ELSE start_date[1]
             n == IF num_installments < 0 THEN 0 ELSE num_installments
         IN [status |-> "ok",
             value |-> [j \in 1..n |->
                 [due_date |-> start + (j - 1) * interval_days,
                  amount_cents |-> (amount_cents \div num_installments)
                      + (IF j = 1 THEN amount_cents % num_installments ELSE 0)]]]

\* Mutant: the amount is divided before it is tested, and only a zero amount
\* gives the empty plan.
generate_installment_plan_divides_first(amount_cents, num_installments, interval_days, start_date, today) ==
    IF num_installments = 0 THEN [status |-> "ZeroDivisionError"]
    ELSE IF amount_cents = 0 THEN [status |-> "ok", value |-> <<>>]
    ELSE LET start == IF start_date = None THEN today + interval_days ELSE start_date[1]
             n == IF num_installments < 0 THEN 0 ELSE num_installments
         IN [status |-> "ok",
             value |-> [j \in 1..n |->
                 [due_date |-> start + (j - 1) * interval_days,
                  amount_cents |-> amount_cents \div n]]]

\* generate_installment_plan.  The loop index i of the code is j - 1.
\* amount_cents // 0 raises ZeroDivisionError; range(n) is empty for n < 0.
\* Python's // and % are floor division and its remainder; for a negative
\* divisor they are computed from the positive one.
generate_installment_plan(amount_cents, num_installments, interval_days, start_date, today) ==
    IF amount_cents <= 0 THEN [status |-> "ok", value |-> <<>>]
    ELSE IF num_installments = 0 THEN [status |-> "ZeroDivisionError"]
    ELSE LET start == IF start_date = None THEN today + interval_days ELSE start_date[1]
             base_amount == IF num_installments > 0
                            THEN amount_cents \div num_installments
                            ELSE -((amount_cents + (-num_installments) - 1) \div (-num_installments))
             remainder == amount_cents - base_amount * num_installments
             n == IF num_installments < 0 THEN 0 ELSE num_installments
         IN [status |-> "ok",
             value |-> [j \in 1..n |->
                 [due_date |-> start + (j - 1) * interval_days,
                  amount_cents |-> base_amount + (IF j - 1 = num_installments - 1 THEN remainder ELSE 0)]]]

-----------------------------------------------------------------------------
(* utils/date_utils.py *)

\* Mutant: the end date is left out (range(days) without the + 1).
generate_date_range_exclusive(start, end) ==
    LET days == end - start
    IN [i \in 1..(IF days < 0 THEN 0 ELSE days) |-> start + (i - 1)]

\* generate_date_range: [start + timedelta(days=i) for i in range(days)]
generate_date_range(start, end) ==
    LET days == (end - start) + 1
    IN [i \in 1..(IF days < 0 THEN 0 ELSE days) |-> start + (i - 1)]

-----------------------------------------------------------------------------
(* domain/scoring.py: analyze_transactions *)

\* A Transaction is [date, amount_cents, type, balance_cents, nsf]; the
\* descriptive fields (id, description, category, merchant) are never read.

\* sorted(transactions, key=lambda t: t.date): a stable sort; an element goes
\* after every element already placed whose date is not greater.
RECURSIVE InsertByDate(_, _)
InsertByDate(t, s) ==
    IF s = <<>> THEN <<t>>
    ELSE IF s[Len(s)].date <= t.date THEN Append(s, t)
    ELSE Append(InsertByDate(t, SubSeq(s, 1, Len(s) - 1)), s[Len(s)])

\* Mutant: the list is taken in the order given, unsorted.
sorted_txns_as_given(transactions) == transactions

RECURSIVE sorted_txns(_)
sorted_txns(transactions) ==
    IF transactions = <<>> THEN <<>>
    ELSE InsertByDate(transactions[Len(transactions)],
                      sorted_txns(SubSeq(transactions, 1, Len(transactions) - 1)))

\* Mutant: the first balance seen for a date is kept (dict.setdefault).
RECURSIVE balance_by_date_keeps_first(_)
balance_by_date_keeps_first(sorted) ==
    IF sorted = <<>> THEN <<>>
    ELSE LET txn == sorted[Len(sorted)]
             m == balance_by_date_keeps_first(SubSeq(sorted, 1, Len(sorted) - 1))
         IN [d \in (DOMAIN m) \cup {txn.date} |->
                IF d \in DOMAIN m THEN m[d] ELSE txn.balance_cents]

\* The dict balance_by_date after the loop of lines 29-30: each assignment
\* overwrites the entry of the date.
RECURSIVE balance_by_date(_)
balance_by_date(sorted) ==
    IF sorted = <<>> THEN <<>>
    ELSE LET txn == sorted[Len(sorted)]
             m == balance_by_date(SubSeq(sorted, 1, Len(sorted) - 1))
         IN [d \in (DOMAIN m) \cup {txn.date} |->
                IF d = txn.date THEN txn.balance_cents ELSE m[d]]

\* all_dates of line 33, for a non-empty list.
all_dates(transactions) ==
    LET sorted == sorted_txns(transactions)
    IN generate_date_range(sorted[1].date, sorted[Len(sorted)].date)

\* Mutant: a day without a transaction counts 0 instead of the carried balance.
RECURSIVE daily_balances_no_carry(_, _, _)
daily_balances_no_carry(dates, by_date, last_known_balance) ==
    IF dates = <<>> THEN <<>>
    ELSE LET day == dates[1]
             known == IF day \in DOMAIN by_date THEN by_date[day] ELSE 0
         IN <<known>> \o daily_balances_no_carry(Tail(dates), by_date, known)

\* The loop of lines 37-40.
RECURSIVE daily_balances(_, _, _)
daily_balances(dates, by_date, last_known_balance) ==
    IF dates = <<>> THEN <<>>
    ELSE LET day == dates[1]
             known == IF day \in DOMAIN by_date THEN by_date[day] ELSE last_known_balance
         IN <<known>> \o daily_balances(Tail(dates), by_date, known)

RECURSIVE SumAmounts(_, _)
SumAmounts(transactions, type) ==
    IF transactions = <<>> THEN 0
    ELSE (IF transactions[1].type = type THEN transactions[1].amount_cents ELSE 0)
         + SumAmounts(Tail(transactions), type)

\* Mutant: the flag and the negative balance are counted separately.
RECURSIVE CountNsf_both(_)
CountNsf_both(transactions) ==
    IF transactions = <<>> THEN 0
    ELSE (IF transactions[1].nsf THEN 1 ELSE 0)
         + (IF transactions[1].balance_cents < 0 THEN 1 ELSE 0)
         + CountNsf_both(Tail(transactions))

\* lines 53-56

RECURSIVE CountNsf(_)
CountNsf(transactions) ==
    IF transactions = <<>> THEN 0
    ELSE (IF transactions[1].nsf \/ transactions[1].balance_cents < 0 THEN 1 ELSE 0)
         + CountNsf(Tail(transactions))

\* Mutant: without spend the ratio is the income itself instead of 0.0.
RiskFactors_income_without_spend(daily, total_income, total_spend, nsf_count, transaction_count, days_with_transactions) ==
    [avg_daily_balance_cents |-> IF daily # <<>> THEN SumSeq(daily) \div Len(daily) ELSE 0,
     total_income_cents |-> total_income,
     total_spend_cents |-> total_spend,
     income_spend_ratio |-> IF total_spend > 0 THEN Rat(total_income, total_spend)
                                                ELSE Rat(total_income, 1),
     nsf_count |-> nsf_count,
     transaction_count |-> transaction_count,
     days_with_transactions |-> days_with_transactions]

\* The RiskFactors returned by lines 42-69, from the per-day balances and the totals.
RiskFactors(daily, total_income, total_spend, nsf_count, transaction_count, days_with_transactions) ==
    [\* Python's // is floor division, as is \div
     avg_daily_balance_cents |-> IF daily # <<>> THEN SumSeq(daily) \div Len(daily) ELSE 0,
     total_income_cents |-> total_income,
     total_spend_cents |-> total_spend,
     income_spend_ratio |-> IF total_spend > 0 THEN Rat(total_income, total_spend) ELSE Rat(0, 1),
     nsf_count |-> nsf_count,
     transaction_count |-> transaction_count,
     days_with_transactions |-> days_with_transactions]

analyze_transactions(transactions) ==
    IF transactions = <<>> THEN [status |-> "InsufficientDataError"]
    ELSE [status |-> "ok",
          value |-> RiskFactors(
              daily_balances(all_dates(transactions),
                             balance_by_date(sorted_txns(transactions)), 0),
              SumAmounts(transactions, "credit"),
              SumAmounts(transactions, "debit"),
              CountNsf(transactions),
              Len(transactions),
              Cardinality({transactions[i].date : i \in DOMAIN transactions}))]

-----------------------------------------------------------------------------
(* domain/scoring.py: calculate_risk_score, determine_credit_limit *)

balance_baseline == 100000

\* round(x, 3) of the rational x, in thousandths: round-half-to-even.  At an
\* exact decimal tie the float result depends on the representation error of
\* the sum; the inputs explored below avoid exact ties.
Round3(x) ==
    LET g == GCD(1000, x[2])
        den == x[2] \div g
        p == (1000 \div g) * x[1]
        k == p \div den
        rem == p - k * den
    IN IF 2 * rem < den THEN k
       ELSE IF 2 * rem > den THEN k + 1
       ELSE IF k % 2 = 0 THEN k ELSE k + 1

\* Mutant: the distance of the balance from zero is scored, an overdraft as
\* well as a credit balance.
balance_score_distance(risk_factors) ==
    RatMin(Rat(Abs(risk_factors.avg_daily_balance_cents), balance_baseline), Rat(1, 1))

\* line 88: min(avg_daily_balance_cents / balance_baseline, 1.0)
balance_score(risk_factors) ==
    RatMin(Rat(risk_factors.avg_daily_balance_cents, balance_baseline), Rat(1, 1))

\* line 91: min(income_spend_ratio, 1.0)
income_score(risk_factors) == RatMin(risk_factors.income_spend_ratio, Rat(1, 1))

\* line 94
nsf_score(risk_factors) == IF risk_factors.nsf_count = 0 THEN Rat(1, 1) ELSE Rat(0, 1)

\* line 97: (0.4 * balance_score) + (0.4 * income_score) + (0.2 * nsf_score)
WeightedScore(b, i, n) ==
    RatAdd(RatAdd(RatMul(Rat(4, 10), b), RatMul(Rat(4, 10), i)), RatMul(Rat(2, 10), n))

\* Mutant: partial credit for NSF events (1 / (1 + count)) instead of the binary penalty.
calculate_risk_score_partial_nsf(risk_factors) ==
    Rat(Round3(WeightedScore(balance_score(risk_factors), income_score(risk_factors),
                             Rat(1, 1 + risk_factors.nsf_count))), 1000)

\* calculate_risk_score: round(score, 3), a number of thousandths.
calculate_risk_score(risk_factors) ==
    Rat(Round3(WeightedScore(balance_score(risk_factors), income_score(risk_factors),
                             nsf_score(risk_factors))), 1000)

\* Mutant: the bands are right-closed (<= instead of <).
determine_credit_limit_right_closed(score) ==
    IF RatLeq(score, Rat(2, 10)) THEN [approved |-> FALSE, credit_limit_cents |-> 0, score_band |-> "high_risk"]
    ELSE IF RatLeq(score, Rat(4, 10)) THEN [approved |-> TRUE, credit_limit_cents |-> 10000, score_band |-> "moderate_risk"]
    ELSE IF RatLeq(score, Rat(7, 10)) THEN [approved |-> TRUE, credit_limit_cents |-> 40000, score_band |-> "acceptable_risk"]
    ELSE [approved |-> TRUE, credit_limit_cents |-> 100000, score_band |-> "low_risk"]

determine_credit_limit(score) ==
    IF RatLess(score, Rat(2, 10)) THEN [approved |-> FALSE, credit_limit_cents |-> 0, score_band |-> "high_risk"]
    ELSE IF RatLess(score, Rat(4, 10)) THEN [approved |-> TRUE, credit_limit_cents |-> 10000, score_band |-> "moderate_risk"]
    ELSE IF RatLess(score, Rat(7, 10)) THEN [approved |-> TRUE, credit_limit_cents |-> 40000, score_band |-> "acceptable_risk"]
    ELSE [approved |-> TRUE, credit_limit_cents |-> 100000, score_band |-> "low_risk"]

\* The CreditDecision of lines 134-140.
CreditDecision(limit, score, risk_factors) ==
    [approved |-> limit.approved,
     credit_limit_cents |-> limit.credit_limit_cents,
     score |-> score,
     score_band |-> limit.score_band,
     risk_factors |-> risk_factors]

ScoredDecision(score, risk_factors) ==
    CreditDecision(determine_credit_limit(score), score, risk_factors)

\* Mutant: an analysis that failed is answered by a declined decision.
DecisionOf_declines_on_error(analysed) ==
    IF analysed.status # "ok"
    THEN [status |-> "ok",
          value |-> ScoredDecision(Rat(0, 1), RiskFactors(<<>>, 0, 0, 0, 0, 0))]
    ELSE [status |-> "ok",
          value |-> ScoredDecision(calculate_risk_score(analysed.value), analysed.value)]

\* Lines 130-140: an exception of analyze_transactions leaves
\* make_credit_decision as it is; otherwise the decision is built.

DecisionOf(analysed) ==
    IF analysed.status # "ok" THEN analysed
    ELSE [status |-> "ok",
          value |-> ScoredDecision(calculate_risk_score(analysed.value), analysed.value)]

\* make_credit_decision: InsufficientDataError propagates.
make_credit_decision(transactions) == DecisionOf(analyze_transactions(transactions))

-----------------------------------------------------------------------------
(* Bounds and inputs *)

NumRequests == 2        \* decision requests in flight together
MaxRetriesCfg == 5      \* largest configured webhook_max_retries explored
MaxTxns == 3            \* longest transaction list analysed
MaxDay == 2             \* transaction dates range over 0..MaxDay
MaxCount == 5           \* largest num_installments explored
MaxNsf == 2             \* largest nsf_count given to calculate_risk_score

webhook_max_retries == 5    \* Settings default
webhook_backoff_base == 1   \* Settings default (1.0 second)

Requests == 1..NumRequests

\* balance, amount, type and NSF flag of the transactions analysed; the date
\* is chosen separately.  The four cover the NSF flag set or not with a
\* balance negative or not.
TxnTemplates ==
    { [amount_cents |-> 300000, type |-> "credit", balance_cents |-> 120000, nsf |-> FALSE],
      [amount_cents |-> 200000, type |-> "debit",  balance_cents |-> 45000,  nsf |-> TRUE],
      [amount_cents |-> 70000,  type |-> "debit",  balance_cents |-> -50000, nsf |-> FALSE],
      [amount_cents |-> 1000,   type |-> "debit",  balance_cents |-> -500,   nsf |-> TRUE] }

Txn(d, tpl) ==
    [date |-> d, amount_cents |-> tpl.amount_cents, type |-> tpl.type,
     balance_cents |-> tpl.balance_cents, nsf |-> tpl.nsf]

Transactions == { Txn(d, tpl) : d \in 0..MaxDay, tpl \in TxnTemplates }

RECURSIVE SeqsUpTo(_, _)
SeqsUpTo(S, n) ==
    IF n = 0 THEN { <<>> }
    ELSE LET shorter == SeqsUpTo(S, n - 1)
         IN shorter \cup { Append(s, x) : s \in { t \in shorter : Len(t) = n - 1 }, x \in S }

TransactionLists == SeqsUpTo(Transactions, MaxTxns)

-----------------------------------------------------------------------------
(* infrastructure/clients/bank.py *)

\* What the bank API does with one GET /bank/transactions.
BankReplies ==
    { [kind |-> "ok", transactions |-> h] :
        h \in { <<>>,
                <<Txn(0, [amount_cents |-> 70000, type |-> "debit", balance_cents |-> -50000, nsf |-> FALSE])>>,
                <<Txn(0, [amount_cents |-> 300000, type |-> "credit", balance_cents |-> 120000, nsf |-> FALSE]),
                  Txn(2, [amount_cents |-> 200000, type |-> "debit", balance_cents |-> 45000, nsf |-> FALSE])>> } }
    \cup { [kind |-> k] : k \in {"timeout", "http_error", "malformed", "connect_error"} }

\* BankClient.get_transactions: TimeoutException, HTTPStatusError and
\* KeyError/ValueError/TypeError become BankAPIError; any other httpx
\* RequestError (a refused connection) is caught by no handler and propagates.
get_transactions(reply) ==
    CASE reply.kind = "ok" -> [status |-> "ok", value |-> reply.transactions]
      [] reply.kind \in {"timeout", "http_error", "malformed"} -> [status |-> "BankAPIError"]
      [] OTHER -> [status |-> "RequestError"]

-----------------------------------------------------------------------------
(* infrastructure/observability/metrics.py *)

\* The counters and histograms are module globals of prometheus_client.  No
\* caller guards a call into them, so whether such a call returns or raises
\* is an input of the caller: with metrics = "up" every call returns, with
\* metrics = "failing" each call may raise.
\* Whether one call into the metrics registry returns (TRUE) or raises.
MetricsCallOutcomes(m) == IF m = "up" THEN {TRUE} ELSE {TRUE, FALSE}

-----------------------------------------------------------------------------
(* api/v1/decision.py: POST /v1/decision *)

\* DecisionRequest.amount_cents_requested: Field(gt=0)
RequestedAmounts == {5000, 150000}

\* date.today() when the handler runs
Todays == {19000}

Min(a, b) == IF a <= b THEN a ELSE b

\* Mutant: the requested amount is granted without the cap of the limit.
amount_granted_uncapped(amount_cents_requested, decision) ==
    IF decision.approved THEN amount_cents_requested ELSE 0

\* lines 54-58
amount_granted(amount_cents_requested, decision) ==
    IF decision.approved
    THEN Min(amount_cents_requested, decision.credit_limit_cents)
    ELSE 0

\* Mutant: the decision row is keyed by the user, so a user has one decision.
DecisionRow_keyed_by_user(id, user_id, requested_cents, decision, amount_granted_cents) ==
    [table |-> "bnpl_decision", id |-> user_id, user_id |-> user_id,
     requested_cents |-> requested_cents, approved |-> decision.approved,
     credit_limit_cents |-> decision.credit_limit_cents,
     amount_granted_cents |-> amount_granted_cents,
     score_numeric |-> decision.score, score_band |-> decision.score_band]

\* DecisionRepository.create_decision: the row added to the session.  The
\* primary key is a fresh uuid, here the request's index.
DecisionRow(id, user_id, requested_cents, decision, amount_granted_cents) ==
    [table |-> "bnpl_decision", id |-> id, user_id |-> user_id,
     requested_cents |-> requested_cents, approved |-> decision.approved,
     credit_limit_cents |-> decision.credit_limit_cents,
     amount_granted_cents |-> amount_granted_cents,
     score_numeric |-> decision.score, score_band |-> decision.score_band]

\* PlanRepository.create_plan: the plan row with its installment rows.
PlanRow(id, decision_id, user_id, total_cents, installments) ==
    [table |-> "bnpl_plan", id |-> id, decision_id |-> decision_id,
     user_id |-> user_id, total_cents |-> total_cents, installments |-> installments]

NoTask == [state |-> "none"]

\* Mutant: the delivery is started at once (asyncio.create_task) instead of
\* being handed to BackgroundTasks.
add_task_eager(payload) ==
    [state |-> "ready", payload |-> payload, attempt |-> 0, posts |-> 0,
     sleeps |-> <<>>, last_error |-> "none", got_2xx |-> FALSE]

\* background_tasks.add_task(ledger_client.send_approval_event, payload):
\* the task is only recorded; it runs once the response has been sent.
\* A task holds the loop variable attempt, the POSTs issued, the backoff
\* delays slept, the exception of the last failed attempt and whether a 2xx
\* response was received.
add_task(payload) ==
    [state |-> "added", payload |-> payload, attempt |-> 0, posts |-> 0,
     sleeps |-> <<>>, last_error |-> "none", got_2xx |-> FALSE]

\* Lines 94-99 and 119-122: the rows are committed, then record_decision
\* raises; except Exception calls db.rollback(), which finds nothing left
\* to roll back, and answers 500.  The task stays added.
RespondAfterMetricsError(r, req, granted, db_decision, with_plan, today) ==
    [response |-> [status_code |-> 500],
     committed |-> {db_decision} \cup
         (IF with_plan
          THEN {PlanRow(r, r, req.user_id, granted,
                        generate_installment_plan(granted, 4, 14, None, today).value)}
          ELSE {}),
     task |-> IF with_plan
              THEN add_task([event |-> "BNPL_APPROVED", decision_id |-> r, plan_id |-> r,
                             user_id |-> req.user_id, amount_cents |-> granted])
              ELSE NoTask]

\* Lines 69-106 for a decision that was made and persisted: the plan, the
\* webhook task, db.commit(), record_decision and the response.  commit_ok
\* is whether db.commit() succeeds; when it raises, except Exception rolls
\* back and answers 500, and the task stays added.  metrics_ok is whether
\* record_decision returns.
Respond(r, req, decision, granted, db_decision, with_plan, commit_ok, metrics_ok, today) ==
    IF commit_ok /\ ~metrics_ok
    THEN RespondAfterMetricsError(r, req, granted, db_decision, with_plan, today)
    ELSE IF commit_ok
    THEN [response |-> [status_code |-> 200,
                        approved |-> decision.approved,
                        credit_limit_cents |-> decision.credit_limit_cents,
                        amount_granted_cents |-> granted,
                        plan_id |-> IF with_plan THEN Some(r) ELSE None],
          committed |-> {db_decision} \cup
              (IF with_plan
               THEN {PlanRow(r, r, req.user_id, granted,
                             generate_installment_plan(granted, 4, 14, None, today).value)}
               ELSE {}),
          task |-> IF with_plan
                   THEN add_task([event |-> "BNPL_APPROVED", decision_id |-> r, plan_id |-> r,
                                  user_id |-> req.user_id, amount_cents |-> granted])
                   ELSE NoTask]
    ELSE [response |-> [status_code |-> 500],
          committed |-> {},
          task |-> IF with_plan
                   THEN add_task([event |-> "BNPL_APPROVED", decision_id |-> r, plan_id |-> r,
                                  user_id |-> req.user_id, amount_cents |-> granted])
                   ELSE NoTask]

\* Mutant: the plan and the webhook are made for every decision, declined or not.
Persist_always_plans(r, req, decision, granted, commit_ok, metrics_ok, today) ==
    Respond(r, req, decision, granted,
            DecisionRow(r, req.user_id, req.amount_cents_requested, decision, granted),
            TRUE, commit_ok, metrics_ok, today)

\* Lines 53-67: the granted amount and the decision row.
Persist(r, req, decision, granted, commit_ok, metrics_ok, today) ==
    Respond(r, req, decision, granted,
            DecisionRow(r, req.user_id, req.amount_cents_requested, decision, granted),
            decision.approved /\ granted > 0, commit_ok, metrics_ok, today)

\* Mutant: the amount granted depends on the day the request is handled.
Decide_by_day(r, req, made, commit_ok, metrics_ok, today) ==
    IF made.status = "InsufficientDataError"
    THEN [response |-> [status_code |-> 422], committed |-> {}, task |-> NoTask]
    ELSE Persist(r, req, made.value,
                 IF today \in Todays
                 THEN amount_granted(req.amount_cents_requested, made.value)
                 ELSE 0,
                 commit_ok, metrics_ok, today)

\* Lines 50-51 and the except branches of lines 114-122.
Decide(r, req, made, commit_ok, metrics_ok, today) ==
    IF made.status = "InsufficientDataError"
    THEN [response |-> [status_code |-> 422], committed |-> {}, task |-> NoTask]
    ELSE Persist(r, req, made.value,
                 amount_granted(req.amount_cents_requested, made.value),
                 commit_ok, metrics_ok, today)

\* The handler from the resumption after the bank fetch to its return or
\* raise: the response, the rows it leaves committed, and the task it added.
\* Lines 108-112: BankAPIError counts a bank-fetch failure and answers 503;
\* when bank_fetch_failures_counter.inc() raises inside that except branch
\* the exception leaves the handler and the server answers 500.  Lines
\* 119-122: any other exception of the fetch answers 500.
HandlerOutcome(r, req, fetched, commit_ok, metrics_ok, today) ==
    IF fetched.status = "BankAPIError"
    THEN [response |-> [status_code |-> IF metrics_ok THEN 503 ELSE 500],
          committed |-> {}, task |-> NoTask]
    ELSE IF fetched.status # "ok"
    THEN [response |-> [status_code |-> 500], committed |-> {}, task |-> NoTask]
    ELSE Decide(r, req, make_credit_decision(fetched.value), commit_ok, metrics_ok, today)

\* The request arrives and the handler suspends in bank_client.get_transactions.
receive_request(r) ==
    /\ pc[r] = "idle"
    /\ \E amount \in RequestedAmounts :
          request' = [request EXCEPT ![r] =
              [user_id |-> request[r].user_id, amount_cents_requested |-> amount]]
    /\ pc' = [pc EXCEPT ![r] = "fetching"]
    /\ UNCHANGED <<max_retries, backoff_base, metrics, bank, response, session, db, delivery, arg, ret>>

\* The state the handler leaves behind.
Handled(r, reply, out) ==
    /\ bank' = [bank EXCEPT ![r] = reply]
    /\ response' = [response EXCEPT ![r] = out.response]
    /\ session' = [session EXCEPT ![r] =
           IF out.committed # {} THEN "committed" ELSE "rolled back"]
    /\ db' = db \cup out.committed
    /\ delivery' = [delivery EXCEPT ![r] = out.task]

\* The bank answers and the handler runs to its return or raise, on one of
\* the given days.
create_decision_at(r, days) ==
    /\ pc[r] = "fetching"
    /\ \E reply \in BankReplies, commit_ok \in BOOLEAN,
          metrics_ok \in MetricsCallOutcomes(metrics), today \in days :
          Handled(r, reply, HandlerOutcome(r, request[r], get_transactions(reply),
                                           commit_ok, metrics_ok, today))
    /\ pc' = [pc EXCEPT ![r] = "returning"]
    /\ UNCHANGED <<max_retries, backoff_base, metrics, request, arg, ret>>

create_decision(r) == create_decision_at(r, Todays)

\* Mutant: the tasks added by a handler run whatever the handler's outcome.
send_response_runs_tasks(r) ==
    /\ pc[r] = "returning"
    /\ pc' = [pc EXCEPT ![r] = "responded"]
    /\ delivery' = [delivery EXCEPT ![r] =
          IF delivery[r].state = "added"
          THEN [delivery[r] EXCEPT !.state = "ready"]
          ELSE delivery[r]]
    /\ UNCHANGED <<max_retries, backoff_base, metrics, request, bank, response, session, db, arg, ret>>

\* The framework sends the response; the tasks of a handler that returned
\* normally run after it, those of a handler that raised never run.
send_response(r) ==
    /\ pc[r] = "returning"
    /\ pc' = [pc EXCEPT ![r] = "responded"]
    /\ delivery' = [delivery EXCEPT ![r] =
          IF delivery[r].state = "added"
          THEN [delivery[r] EXCEPT !.state =
                   IF response[r].status_code = 200 THEN "ready" ELSE "dropped"]
          ELSE delivery[r]]
    /\ UNCHANGED <<max_retries, backoff_base, metrics, request, bank, response, session, db, arg, ret>>

-----------------------------------------------------------------------------
(* api/v1/plan.py: GET /v1/plan/{plan_id} *)

\* The path parameter: the text of a uuid (id 0 is the uuid of no plan) or a
\* text uuid.UUID() rejects.
PlanIdParams ==
    { [format |-> "uuid", id |-> i] : i \in {0} \cup Requests } \cup { [format |-> "invalid"] }

\* PlanRepository.get_plan_by_id: the committed plans with the primary key.
get_plan_by_id(rows, plan_uuid) ==
    { row \in rows : row.table = "bnpl_plan" /\ row.id = plan_uuid }

\* The relationship BNPLPlan.installments is loaded by a SELECT without
\* ORDER BY: the rows of the plan come in an order the database chooses.
LoadOrders(plans) ==
    IF plans = {} THEN { <<>> }
    ELSE LET n == Len((CHOOSE plan \in plans : TRUE).installments)
         IN { f \in [1..n -> 1..n] : \A i, j \in 1..n : f[i] = f[j] => i = j }

\* Mutant: the plan is looked up by the key of its decision's user.
get_plan_by_user(plan_id, rows, order) ==
    IF plan_id.format # "uuid" THEN [status_code |-> 400]
    ELSE IF { row \in rows : row.table = "bnpl_plan" /\ row.user_id = plan_id.id } = {}
    THEN [status_code |-> 404]
    ELSE [status_code |-> 200, plan_id |-> plan_id.id, user_id |-> plan_id.id,
          total_cents |-> 0, installments |-> <<>>]

\* get_plan: 400 for a text that is no uuid, 404 when no plan has the key,
\* otherwise the plan with its installments (status is the column default
\* "scheduled"; created_at, the server's timestamp, is left out).
get_plan(plan_id, rows, order) ==
    IF plan_id.format # "uuid" THEN [status_code |-> 400]
    ELSE IF get_plan_by_id(rows, plan_id.id) = {} THEN [status_code |-> 404]
    ELSE LET plan == CHOOSE row \in get_plan_by_id(rows, plan_id.id) : TRUE
         IN [status_code |-> 200,
             plan_id |-> plan.id,
             user_id |-> plan.user_id,
             total_cents |-> plan.total_cents,
             installments |->
                 [i \in DOMAIN order |->
                     [due_date |-> plan.installments[order[i]].due_date,
                      amount_cents |-> plan.installments[order[i]].amount_cents,
                      status |-> "scheduled"]]]

\* One GET /v1/plan/{plan_id}: a synchronous handler with a session of its
\* own, which reads the committed rows.
call_get_plan ==
    \E plan_id \in PlanIdParams :
        /\ arg' = Some(plan_id)
        /\ \E order \in LoadOrders(IF plan_id.format = "uuid"
                                   THEN get_plan_by_id(db, plan_id.id) ELSE {}) :
              ret' = [status |-> "ok", value |-> get_plan(plan_id, db, order)]
        /\ UNCHANGED <<max_retries, backoff_base, metrics, pc, request, bank, response, session, db, delivery>>

-----------------------------------------------------------------------------

(* infrastructure/clients/ledger.py: LedgerClient.send_approval_event *)

\* What one POST to the ledger ends with: a 2xx response, a response for
\* which raise_for_status raises, or a timeout / connection error.
PostOutcomes == {"2xx", "HTTPStatusError", "RequestError"}

\* Mutant: after two failures the loop waits without ever posting again.
loop_head_stalls(d, retries) ==
    IF d.attempt < retries
    THEN (IF d.attempt >= 2 THEN d
          ELSE [d EXCEPT !.state = "posting", !.posts = d.posts + 1])
    ELSE [d EXCEPT !.state = "returned"]

\* line 32, while attempt < self.max_retries: the next POST is issued, or
\* the loop ends and the coroutine returns None.
loop_head(d, retries) ==
    IF d.attempt < retries
    THEN [d EXCEPT !.state = "posting", !.posts = d.posts + 1]
    ELSE [d EXCEPT !.state = "returned"]

\* Mutant: the backoff is computed as base * 2^attempt.
on_failure_late_backoff(d, error, retries, base) ==
    LET attempt == d.attempt + 1
    IN IF attempt >= retries
       THEN [d EXCEPT !.attempt = attempt, !.last_error = error, !.state = "raised"]
       ELSE [d EXCEPT !.attempt = attempt, !.last_error = error, !.state = "sleeping",
                      !.sleeps = Append(d.sleeps, base * (2 ^ attempt))]

\* Mutant: the backoff sleep follows every failed attempt, the last one too.
on_failure_sleep_first(d, error, retries, base) ==
    LET attempt == d.attempt + 1
    IN [d EXCEPT !.attempt = attempt, !.last_error = error, !.state = "sleeping",
                 !.sleeps = Append(d.sleeps, base * (2 ^ (attempt - 1)))]

\* lines 43-53, the except branch: count the failure, re-raise it when the
\* budget is used up, otherwise start the backoff sleep.
on_failure(d, error, retries, base) ==
    LET attempt == d.attempt + 1
    IN IF attempt >= retries
       THEN [d EXCEPT !.attempt = attempt, !.last_error = error, !.state = "raised"]
       ELSE [d EXCEPT !.attempt = attempt, !.last_error = error, !.state = "sleeping",
                      !.sleeps = Append(d.sleeps, base * (2 ^ (attempt - 1)))]

\* Mutant: the return after raise_for_status is missing, so the loop posts again.
on_success_no_return(d) ==
    [d EXCEPT !.got_2xx = TRUE, !.state = "posting", !.posts = d.posts + 1]

\* lines 40-41: raise_for_status() passes on a 2xx response and the
\* coroutine returns.
on_success(d) == [d EXCEPT !.got_2xx = TRUE, !.state = "returned"]

\* A call into the metrics registry raises inside the loop: the exception
\* is neither HTTPStatusError nor RequestError, so it leaves the coroutine.
\* Line 34, the histogram's timer observes when its with block is left, by
\* return or by exception, before attempt is incremented; line 45, the
\* failure counter is incremented after attempt.
MetricsFaults(m) == IF m = "up" THEN {"none"} ELSE {"none", "histogram", "counter"}

on_metrics_error(d, fault, received_2xx) ==
    [d EXCEPT !.state = "crashed", !.last_error = "MetricsError",
              !.got_2xx = received_2xx,
              !.attempt = IF fault = "counter" THEN d.attempt + 1 ELSE d.attempt]

\* The task starts: attempt = 0 and the loop is entered.
start_delivery(r) ==
    /\ delivery[r].state = "ready"
    /\ delivery' = [delivery EXCEPT ![r] = loop_head(delivery[r], max_retries)]
    /\ UNCHANGED <<max_retries, backoff_base, metrics, pc, request, bank, response, session, db, arg, ret>>

\* The awaited POST completes.
post_completes(r) ==
    /\ delivery[r].state = "posting"
    /\ \E outcome \in PostOutcomes, fault \in MetricsFaults(metrics) :
          delivery' = [delivery EXCEPT ![r] =
              IF fault = "histogram" \/ (fault = "counter" /\ outcome # "2xx")
              THEN on_metrics_error(delivery[r], fault, outcome = "2xx")
              ELSE IF outcome = "2xx"
              THEN on_success(delivery[r])
              ELSE on_failure(delivery[r], outcome, max_retries, backoff_base)]
    /\ UNCHANGED <<max_retries, backoff_base, metrics, pc, request, bank, response, session, db, arg, ret>>

\* The awaited asyncio.sleep(backoff) completes and the loop goes round.
sleep_completes(r) ==
    /\ delivery[r].state = "sleeping"
    /\ delivery' = [delivery EXCEPT ![r] = loop_head(delivery[r], max_retries)]
    /\ UNCHANGED <<max_retries, backoff_base, metrics, pc, request, bank, response, session, db, arg, ret>>

-----------------------------------------------------------------------------
(* Specifications *)

\* Before request r arrives its slot names the user who will send it; the
\* amount is set when the body arrives.
Caller(user_id) == [user_id |-> user_id, amount_cents_requested |-> 0]

\* Every request comes from a user of its own, or all come from user 1.
DistinctCallers == [r \in Requests |-> Caller(r)]
SameCaller == [r \in Requests |-> Caller(1)]

NoReply == [kind |-> "none"]
NoResponse == [status_code |-> 0]

FlowIdleFor(callers) ==
    /\ pc = [r \in Requests |-> "idle"]
    /\ request = callers
    /\ bank = [r \in Requests |-> NoReply]
    /\ response = [r \in Requests |-> NoResponse]
    /\ session = [r \in Requests |-> "open"]
    /\ db = {}

FlowIdle == FlowIdleFor(DistinctCallers)

PureIdle ==
    /\ arg = None
    /\ ret = NoResult

\* webhook_max_retries the request flow is explored with
FlowMaxRetries == 2

\* The service: decision requests and the webhook deliveries they schedule.
Init ==
    /\ max_retries = FlowMaxRetries
    /\ backoff_base = webhook_backoff_base
    /\ metrics = "up"
    /\ FlowIdle
    /\ delivery = [r \in Requests |-> NoTask]
    /\ PureIdle

Next ==
    \E r \in Requests :
        \/ receive_request(r)
        \/ create_decision(r)
        \/ send_response(r)
        \/ start_delivery(r)
        \/ post_completes(r)
        \/ sleep_completes(r)

Spec == Init /\ [][Next]_vars

\* The same service while calls into the metrics registry may raise.
InitMetricsFailing ==
    /\ max_retries = FlowMaxRetries
    /\ backoff_base = webhook_backoff_base
    /\ metrics = "failing"
    /\ FlowIdle
    /\ delivery = [r \in Requests |-> NoTask]
    /\ PureIdle

NextMetricsFailing ==
    \E r \in Requests :
        \/ receive_request(r)
        \/ create_decision(r)
        \/ send_response(r)
        \/ start_delivery(r)
        \/ post_completes(r)
        \/ sleep_completes(r)

SpecMetricsFailing == InitMetricsFailing /\ [][NextMetricsFailing]_vars

\* The service with concurrent requests of different users and of one user.
InitConcurrent ==
    /\ max_retries = FlowMaxRetries
    /\ backoff_base = webhook_backoff_base
    /\ metrics = "up"
    /\ (FlowIdleFor(DistinctCallers) \/ FlowIdleFor(SameCaller))
    /\ delivery = [r \in Requests |-> NoTask]
    /\ PureIdle

NextConcurrent ==
    \E r \in Requests :
        \/ receive_request(r)
        \/ create_decision(r)
        \/ send_response(r)
        \/ start_delivery(r)
        \/ post_completes(r)
        \/ sleep_completes(r)

SpecConcurrent == InitConcurrent /\ [][NextConcurrent]_vars

\* The days the handler's clock (date.today()) shows in SpecClock.
Clock == Todays \cup { today + 1 : today \in Todays }

\* The handler alone, called repeatedly on different days for one user or
\* for different users; the deliveries it schedules are left out.
NextClock ==
    \E r \in Requests :
        \/ receive_request(r)
        \/ create_decision_at(r, Clock)
        \/ send_response(r)

SpecClock == InitConcurrent /\ [][NextClock]_vars

\* The two endpoints: decision requests in every order, and a read of a plan
\* at any point of them.  A read changes nothing a request sees, so each
\* behaviour is followed up to its first read.
NextPlanApi ==
    /\ ret = NoResult
    /\ \/ \E r \in Requests :
              \/ receive_request(r)
              \/ create_decision(r)
              \/ send_response(r)
       \/ call_get_plan

SpecPlanApi == Init /\ [][NextPlanApi]_vars

\* The ledger client alone: one call of send_approval_event under every
\* configuration of the retry budget and the backoff base.
BackoffBases == {1, 3}

InitDelivery ==
    /\ max_retries \in -1..MaxRetriesCfg
    /\ backoff_base \in BackoffBases
    /\ metrics = "up"
    /\ FlowIdle
    /\ delivery = [r \in Requests |->
          IF r = 1
          THEN [add_task([event |-> "BNPL_APPROVED", decision_id |-> 1, plan_id |-> 1,
                          user_id |-> 1, amount_cents |-> 5000]) EXCEPT !.state = "ready"]
          ELSE NoTask]
    /\ PureIdle

NextDelivery ==
    \E r \in Requests :
        \/ start_delivery(r)
        \/ post_completes(r)
        \/ sleep_completes(r)

SpecDelivery == InitDelivery /\ [][NextDelivery]_vars

\* The ledger client where the event loop runs the task, every awaited POST
\* completes (with a response, or with the timeout of 10 seconds or a
\* transport error) and every asyncio.sleep returns.
FairDelivery ==
    \A r \in Requests :
        /\ WF_vars(start_delivery(r))
        /\ WF_vars(post_completes(r))
        /\ WF_vars(sleep_completes(r))

SpecDeliveryFair == InitDelivery /\ [][NextDelivery]_vars /\ FairDelivery

\* generate_installment_plan called on its own.
PlanAmountValues == {-7, 0, 1, 3, 4, 5, 7, 10, 40000, 40003, 100000}
IntervalValues == {-14, 0, 1, 14}
StartDates == {None, Some(0)}

PlanInputs ==
    [amount_cents : PlanAmountValues, num_installments : -1..MaxCount,
     interval_days : IntervalValues, start_date : StartDates, today : Todays]

InitPlan ==
    /\ arg \in PlanInputs
    /\ ret = NoResult
    /\ max_retries = webhook_max_retries
    /\ backoff_base = webhook_backoff_base
    /\ metrics = "up"
    /\ FlowIdle
    /\ delivery = [r \in Requests |-> NoTask]

call_generate_installment_plan ==
    /\ ret = NoResult
    /\ ret' = generate_installment_plan(arg.amount_cents, arg.num_installments,
                                        arg.interval_days, arg.start_date, arg.today)
    /\ UNCHANGED <<max_retries, backoff_base, metrics, pc, request, bank, response, session, db, delivery, arg>>

NextPlan == call_generate_installment_plan

SpecPlan == InitPlan /\ [][NextPlan]_vars

\* analyze_transactions called on its own.
InitAnalyze ==
    /\ arg \in TransactionLists
    /\ ret = NoResult
    /\ max_retries = webhook_max_retries
    /\ backoff_base = webhook_backoff_base
    /\ metrics = "up"
    /\ FlowIdle
    /\ delivery = [r \in Requests |-> NoTask]

call_analyze_transactions ==
    /\ ret = NoResult
    /\ ret' = analyze_transactions(arg)
    /\ UNCHANGED <<max_retries, backoff_base, metrics, pc, request, bank, response, session, db, delivery, arg>>

NextAnalyze == call_analyze_transactions

SpecAnalyze == InitAnalyze /\ [][NextAnalyze]_vars

\* analyze_transactions called on its own on the lists whose rearrangements
\* are compared: transactions of three kinds (a credit, a debit flagged NSF,
\* a debit that overdraws) on the dates 0..MaxDay.
ReorderedLists ==
    SeqsUpTo({ Txn(d, tpl) : d \in 0..MaxDay,
                             tpl \in { t \in TxnTemplates : ~(t.nsf /\ t.balance_cents < 0) } },
             MaxTxns)

InitReorder ==
    /\ arg \in ReorderedLists
    /\ ret = NoResult
    /\ max_retries = webhook_max_retries
    /\ backoff_base = webhook_backoff_base
    /\ metrics = "up"
    /\ FlowIdle
    /\ delivery = [r \in Requests |-> NoTask]

SpecReorder == InitReorder /\ [][NextAnalyze]_vars

\* calculate_risk_score called on its own.
AvgBalances == {-100000, -50000, -100, 0, 100, 10000, 50000, 90909, 100000, 150000}
Ratios == {Rat(0, 1), Rat(1, 3), Rat(1, 2), Rat(4, 5), Rat(1, 1), Rat(3, 2)}

RiskFactorsInputs ==
    [avg_daily_balance_cents : AvgBalances, total_income_cents : {0}, total_spend_cents : {0},
     income_spend_ratio : Ratios, nsf_count : 0..MaxNsf,
     transaction_count : {0}, days_with_transactions : {0}]

InitScore ==
    /\ arg \in RiskFactorsInputs
    /\ ret = NoResult
    /\ max_retries = webhook_max_retries
    /\ backoff_base = webhook_backoff_base
    /\ metrics = "up"
    /\ FlowIdle
    /\ delivery = [r \in Requests |-> NoTask]

call_calculate_risk_score ==
    /\ ret = NoResult
    /\ ret' = [status |-> "ok", value |-> calculate_risk_score(arg)]
    /\ UNCHANGED <<max_retries, backoff_base, metrics, pc, request, bank, response, session, db, delivery, arg>>

NextScore == call_calculate_risk_score

SpecScore == InitScore /\ [][NextScore]_vars

\* determine_credit_limit called on its own, on scores in thousandths and
\* on a few scores just below the thresholds.
ScoreInputs ==
    { Rat(k, 1000) : k \in -400..1200 }
    \cup { Rat(1999, 10000), Rat(3999, 10000), Rat(6999, 10000) }

InitLimit ==
    /\ arg \in ScoreInputs
    /\ ret = NoResult
    /\ max_retries = webhook_max_retries
    /\ backoff_base = webhook_backoff_base
    /\ metrics = "up"
    /\ FlowIdle
    /\ delivery = [r \in Requests |-> NoTask]

call_determine_credit_limit ==
    /\ ret = NoResult
    /\ ret' = [status |-> "ok", value |-> determine_credit_limit(arg)]
    /\ UNCHANGED <<max_retries, backoff_base, metrics, pc, request, bank, response, session, db, delivery, arg>>

NextLimit == call_determine_credit_limit

SpecLimit == InitLimit /\ [][NextLimit]_vars

\* make_credit_decision called on its own.
InitDecide ==
    /\ arg \in TransactionLists
    /\ ret = NoResult
    /\ max_retries = webhook_max_retries
    /\ backoff_base = webhook_backoff_base
    /\ metrics = "up"
    /\ FlowIdle
    /\ delivery = [r \in Requests |-> NoTask]

call_make_credit_decision ==
    /\ ret = NoResult
    /\ ret' = make_credit_decision(arg)
    /\ UNCHANGED <<max_retries, backoff_base, metrics, pc, request, bank, response, session, db, delivery, arg>>

NextDecide == call_make_credit_decision

SpecDecide == InitDecide /\ [][NextDecide]_vars

\* calculate_risk_score called on two RiskFactors, the second being the
\* first with the average daily balance or the income/spend ratio raised
\* (or left as it is) and every other field the same.
RaisedPairs ==
    { <<rf, [rf EXCEPT !.avg_daily_balance_cents = avg]>> :
        rf \in RiskFactorsInputs, avg \in AvgBalances }
    \cup { <<rf, [rf EXCEPT !.income_spend_ratio = ratio]>> :
        rf \in RiskFactorsInputs, ratio \in Ratios }

InitScorePair ==
    /\ arg \in { pair \in RaisedPairs :
                    /\ pair[1].avg_daily_balance_cents <= pair[2].avg_daily_balance_cents
                    /\ RatLeq(pair[1].income_spend_ratio, pair[2].income_spend_ratio) }
    /\ ret = NoResult
    /\ max_retries = webhook_max_retries
    /\ backoff_base = webhook_backoff_base
    /\ metrics = "up"
    /\ FlowIdle
    /\ delivery = [r \in Requests |-> NoTask]

call_calculate_risk_score_on_pair ==
    /\ ret = NoResult
    /\ ret' = [status |-> "ok",
               value |-> <<calculate_risk_score(arg[1]), calculate_risk_score(arg[2])>>]
    /\ UNCHANGED <<max_retries, backoff_base, metrics, pc, request, bank, response, session, db, delivery, arg>>

NextScorePair == call_calculate_risk_score_on_pair

SpecScorePair == InitScorePair /\ [][NextScorePair]_vars

-----------------------------------------------------------------------------
(* Properties *)

Pow2(n) == 2 ^ n

\* The task has made at least one attempt and no attempt has succeeded.
AllAttemptsFailed(d) == d.state # "none" /\ d.posts >= 1 /\ ~d.got_2xx

C2_DeliveredOnAttemptK ==
    \A r \in Requests :
        (delivery[r].state # "none" /\ delivery[r].got_2xx) =>
            /\ delivery[r].state = "returned"
            /\ delivery[r].posts >= 1
            /\ delivery[r].posts <= max_retries
            /\ delivery[r].attempt = delivery[r].posts - 1
            /\ Len(delivery[r].sleeps) = delivery[r].posts - 1

C2_Witness ==
    \E r \in Requests :
        /\ delivery[r].state = "returned"
        /\ delivery[r].got_2xx
        /\ delivery[r].posts = 3
        /\ delivery[r].attempt = 2
        /\ Len(delivery[r].sleeps) = 2

DecisionRows(r) == { row \in db : row.table = "bnpl_decision" /\ row.id = r }
PlanRows(r) == { row \in db : row.table = "bnpl_plan" /\ row.decision_id = r }

C3_AttemptsAfterResponse ==
    \A r \in Requests :
        (delivery[r].state # "none" /\ delivery[r].posts > 0) =>
            /\ pc[r] = "responded"
            /\ response[r].status_code = 200

C3_ExhaustedKeepsDecision ==
    \A r \in Requests :
        delivery[r].state = "raised" =>
            /\ response[r].status_code = 200
            /\ response[r].approved
            /\ DecisionRows(r) # {}
            /\ PlanRows(r) # {}

C3_DeliveryStep ==
    \A r \in Requests :
        (delivery[r].state \in {"ready", "posting", "sleeping"} /\ delivery'[r] # delivery[r]) =>
            /\ response'[r] = response[r]
            /\ db' = db

\* C3: every webhook POST of a decision is made after the response of that
\* decision has been sent, with status 200; no step of a delivery changes
\* the response or the committed rows, and a delivery that has raised after
\* its last failure leaves the 200 response, the decision row and the plan
\* row in place.
C3_DeliveryAfterResponse ==
    /\ [](C3_AttemptsAfterResponse /\ C3_ExhaustedKeepsDecision)
    /\ [][C3_DeliveryStep]_vars

C3_Witness ==
    \E r \in Requests :
        /\ delivery[r].state = "raised"
        /\ delivery[r].posts = max_retries
        /\ pc[r] = "responded"
        /\ response[r].status_code = 200
        /\ DecisionRows(r) # {}
        /\ PlanRows(r) # {}

PlanAmounts(plan) == [j \in 1..Len(plan) |-> plan[j].amount_cents]

\* C4 as stated: for every amount > 0 and every installment count the plan
\* has count installments whose amounts sum to the amount.
C4_EveryCount ==
    (ret.status # "not called" /\ arg.amount_cents > 0) =>
        /\ ret.status = "ok"
        /\ Len(ret.value) = arg.num_installments
        /\ SumSeq(PlanAmounts(ret.value)) = arg.amount_cents

\* C4, amended: for every amount > 0 and every installment count >= 1 the
\* plan has count installments whose amounts sum exactly to the amount.
C4_PositiveCount ==
    (ret.status # "not called" /\ arg.amount_cents > 0 /\ arg.num_installments >= 1) =>
        /\ ret.status = "ok"
        /\ Len(ret.value) = arg.num_installments
        /\ SumSeq(PlanAmounts(ret.value)) = arg.amount_cents

C4_Witness ==
    /\ ret.status = "ok"
    /\ arg.amount_cents = 40003
    /\ arg.num_installments = 4
    /\ Len(ret.value) = 4
    /\ ret.value[4].amount_cents = 10003

Band(approved, limit, band) ==
    [approved |-> approved, credit_limit_cents |-> limit, score_band |-> band]

\* C5: determine_credit_limit answers for every score, by left-closed,
\* right-open bands: below 0.2 declined with limit 0 (high_risk), from 0.2
\* below 0.4 limit 10000 (moderate_risk), from 0.4 below 0.7 limit 40000
\* (acceptable_risk), from 0.7 limit 100000 (low_risk); in particular at
\* 0.199, 0.2, 0.399, 0.4, 0.699 and 0.7.  A score n/d is below 0.2 when
\* 5n < d, below 0.4 when 5n < 2d, below 0.7 when 10n < 7d.
C5_LimitBands ==
    ret.status # "not called" =>
        /\ ret.status = "ok"
        /\ (5 * arg[1] < arg[2]) => ret.value = Band(FALSE, 0, "high_risk")
        /\ (5 * arg[1] >= arg[2] /\ 5 * arg[1] < 2 * arg[2])
              => ret.value = Band(TRUE, 10000, "moderate_risk")
        /\ (5 * arg[1] >= 2 * arg[2] /\ 10 * arg[1] < 7 * arg[2])
              => ret.value = Band(TRUE, 40000, "acceptable_risk")
        /\ (10 * arg[1] >= 7 * arg[2]) => ret.value = Band(TRUE, 100000, "low_risk")
        /\ arg = Rat(199, 1000) => (~ret.value.approved /\ ret.value.credit_limit_cents = 0)
        /\ arg = Rat(200, 1000) => (ret.value.approved /\ ret.value.credit_limit_cents = 10000)
        /\ arg = Rat(399, 1000) => ret.value.credit_limit_cents = 10000
        /\ arg = Rat(400, 1000) => ret.value.credit_limit_cents = 40000
        /\ arg = Rat(699, 1000) => ret.value.credit_limit_cents = 40000
        /\ arg = Rat(700, 1000) => ret.value.credit_limit_cents = 100000

C5_Witness ==
    /\ ret.status = "ok"
    /\ arg = Rat(200, 1000)
    /\ ret.value = Band(TRUE, 10000, "moderate_risk")

\* C6: every decision response grants min(requested, credit limit) when the
\* decision is approved and 0 when it is declined, so never more than the
\* credit limit or the requested amount; the decision row holds the same
\* amount.
C6_GrantedAmount ==
    \A r \in Requests :
        response[r].status_code = 200 =>
            /\ response[r].amount_granted_cents =
                  (IF response[r].approved
                   THEN Min(request[r].amount_cents_requested, response[r].credit_limit_cents)
                   ELSE 0)
            /\ response[r].amount_granted_cents <= response[r].credit_limit_cents
            /\ response[r].amount_granted_cents <= request[r].amount_cents_requested
            /\ \A row \in DecisionRows(r) :
                  row.amount_granted_cents = response[r].amount_granted_cents

C6_Witness ==
    \E r \in Requests :
        /\ response[r].status_code = 200
        /\ response[r].approved
        /\ request[r].amount_cents_requested > response[r].credit_limit_cents
        /\ response[r].amount_granted_cents = response[r].credit_limit_cents
        /\ DecisionRows(r) # {}

InUnitInterval(x) == RatLeq(Rat(0, 1), x) /\ RatLeq(x, Rat(1, 1))

\* C7: for every RiskFactors, a negative average daily balance included,
\* the balance component and the income component of calculate_risk_score
\* lie in [0,1], and so does the score.
C7_ScoreInUnitInterval ==
    ret.status = "ok" =>
        /\ InUnitInterval(balance_score(arg))
        /\ InUnitInterval(income_score(arg))
        /\ InUnitInterval(ret.value)

\* 0.4*balance + 0.4*income + 0.2*nsf as C8 states it, exactly.
C8_Exact(rf) ==
    RatAdd(RatAdd(RatMul(Rat(2, 5),
                         IF rf.avg_daily_balance_cents >= 100000 THEN Rat(1, 1)
                         ELSE Rat(rf.avg_daily_balance_cents, 100000)),
                  RatMul(Rat(2, 5),
                         IF RatLeq(Rat(1, 1), rf.income_spend_ratio) THEN Rat(1, 1)
                         ELSE rf.income_spend_ratio)),
           IF rf.nsf_count = 0 THEN Rat(1, 5) ELSE Rat(0, 1))

\* |x - y| <= 1/2000 for the fractions x and y
WithinHalfThousandth(x, y) ==
    Abs(x[1] * y[2] - y[1] * x[2]) <= (x[2] * y[2]) \div 2000

\* C8: the score is 0.4*balance + 0.4*income + 0.2*nsf rounded to 3
\* decimals (a whole number of thousandths at most half a thousandth away),
\* with balance = min(avg/100000, 1), income = min(ratio, 1) and nsf 1 for no
\* NSF event and 0 for one or more; for average balance 150000, ratio 1.5
\* and no NSF event it is exactly 1.0.
C8_WeightedScore ==
    ret.status = "ok" =>
        /\ 1000 % ret.value[2] = 0
        /\ WithinHalfThousandth(ret.value, C8_Exact(arg))
        /\ (arg.avg_daily_balance_cents = 150000 /\ arg.income_spend_ratio = Rat(3, 2)
               /\ arg.nsf_count = 0) => ret.value = Rat(1, 1)

C8_Witness ==
    /\ ret.status = "ok"
    /\ arg.avg_daily_balance_cents = 150000
    /\ arg.income_spend_ratio = Rat(3, 2)
    /\ arg.nsf_count = 0
    /\ ret.value = Rat(1, 1)

TxnDates(transactions) == { transactions[i].date : i \in DOMAIN transactions }
MinOf(S) == CHOOSE x \in S : \A y \in S : x <= y
MaxOf(S) == CHOOSE x \in S : \A y \in S : y <= x

\* The balance of the last transaction, in input order, dated d.
KnownBalance(transactions, d) ==
    transactions[MaxOf({ i \in DOMAIN transactions : transactions[i].date = d })].balance_cents

\* The balance of day d: its known balance, otherwise the known balance of
\* the latest earlier day that has one, 0 if there is none.
DayBalance(transactions, d) ==
    IF { e \in TxnDates(transactions) : e <= d } = {} THEN 0
    ELSE KnownBalance(transactions, MaxOf({ e \in TxnDates(transactions) : e <= d }))

RECURSIVE SumDayBalances(_, _, _)
SumDayBalances(transactions, lo, hi) ==
    IF hi < lo THEN 0
    ELSE DayBalance(transactions, hi) + SumDayBalances(transactions, lo, hi - 1)

C10_DateRangeCoversEachDayOnce ==
    (ret.status # "not called" /\ arg # <<>>) =>
        /\ ret.status = "ok"
        /\ Len(all_dates(arg)) = MaxOf(TxnDates(arg)) - MinOf(TxnDates(arg)) + 1
        /\ \A d \in MinOf(TxnDates(arg))..MaxOf(TxnDates(arg)) :
              Cardinality({ i \in DOMAIN all_dates(arg) : all_dates(arg)[i] = d }) = 1
        /\ \A i \in DOMAIN all_dates(arg) :
              /\ all_dates(arg)[i] \in MinOf(TxnDates(arg))..MaxOf(TxnDates(arg))
              /\ i < Len(all_dates(arg)) => all_dates(arg)[i] < all_dates(arg)[i + 1]

C10_Witness ==
    /\ ret.status = "ok"
    /\ Len(arg) = 2
    /\ arg[1].date = 2
    /\ arg[2].date = 0
    /\ all_dates(arg) = <<0, 1, 2>>

\* C11: for the empty transaction list analyze_transactions fails with
\* InsufficientDataError, and make_credit_decision ends with that same
\* error and carries no CreditDecision.
C11_EmptyIsInsufficientData ==
    (ret.status # "not called" /\ arg = <<>>) =>
        /\ analyze_transactions(arg) = [status |-> "InsufficientDataError"]
        /\ ret = analyze_transactions(arg)
        /\ DOMAIN ret = {"status"}

C11_Witness ==
    /\ arg = <<>>
    /\ ret.status = "InsufficientDataError"

\* C12: the NSF count of analyze_transactions is the number of input
\* transactions whose NSF flag is set or whose balance is negative, a
\* transaction with both counted once.
C12_NsfCount ==
    ret.status = "ok" =>
        ret.value.nsf_count =
            Cardinality({ i \in DOMAIN arg : arg[i].nsf \/ arg[i].balance_cents < 0 })

\* flag only, flag and negative balance, negative balance only
C12_Witness ==
    /\ ret.status = "ok"
    /\ Len(arg) = 3
    /\ arg[1].nsf /\ arg[1].balance_cents >= 0
    /\ arg[2].nsf /\ arg[2].balance_cents < 0
    /\ ~arg[3].nsf /\ arg[3].balance_cents < 0
    /\ ret.value.nsf_count = 3

\* C13: for amount > 0 and a plan of count >= 1 installments, with
\* base = floor(amount / count) and remainder = amount mod count, the first
\* count - 1 installments have amount base and the last base + remainder,
\* so the last exceeds the others by less than count; the plan of 40003 in
\* 4 installments is 10000, 10000, 10000, 10003.
C13_RemainderOnLast ==
    (ret.status # "not called" /\ arg.amount_cents > 0 /\ arg.num_installments >= 1) =>
        /\ ret.status = "ok"
        /\ Len(ret.value) = arg.num_installments
        /\ \A j \in 1..(arg.num_installments - 1) :
              ret.value[j].amount_cents = arg.amount_cents \div arg.num_installments
        /\ ret.value[arg.num_installments].amount_cents =
              (arg.amount_cents \div arg.num_installments)
              + (arg.amount_cents % arg.num_installments)
        /\ ret.value[arg.num_installments].amount_cents - ret.value[1].amount_cents
              < arg.num_installments
        /\ (arg.amount_cents = 40003 /\ arg.num_installments = 4)
              => PlanAmounts(ret.value) = <<10000, 10000, 10000, 10003>>

C13_Witness ==
    /\ ret.status = "ok"
    /\ arg.amount_cents = 7
    /\ arg.num_installments = 5
    /\ PlanAmounts(ret.value) = <<1, 1, 1, 1, 3>>

\* The first due date of the plan: the start date given, otherwise the
\* decision date plus the interval.
PlanStart == IF arg.start_date = None THEN arg.today + arg.interval_days ELSE arg.start_date[1]

\* C14: in every plan returned the i-th due date (i from 0) is
\* start + i * interval_days, and for every interval_days the due dates
\* strictly increase, consecutive ones exactly interval_days apart.
C14_DueDatesStrictlyIncrease ==
    ret.status = "ok" =>
        /\ \A j \in DOMAIN ret.value :
              ret.value[j].due_date = PlanStart + (j - 1) * arg.interval_days
        /\ \A j \in 1..(Len(ret.value) - 1) :
              /\ ret.value[j].due_date < ret.value[j + 1].due_date
              /\ ret.value[j + 1].due_date - ret.value[j].due_date = arg.interval_days

\* C15: for every amount <= 0 generate_installment_plan returns the empty
\* sequence and raises nothing, whatever count, interval and start date.
C15_NoPlanWithoutAmount ==
    (ret.status # "not called" /\ arg.amount_cents <= 0) =>
        ret = [status |-> "ok", value |-> <<>>]

\* a negative amount with a count of 0, which would not divide
C15_Witness ==
    /\ arg.amount_cents = -7
    /\ arg.num_installments = 0
    /\ arg.interval_days = 0
    /\ ret = [status |-> "ok", value |-> <<>>]

\* C16: calculate_risk_score is monotonically non-decreasing in the average
\* daily balance and in the income/spend ratio: of two RiskFactors that
\* differ only in that the second has the higher balance or the higher
\* ratio, the second never has the lower score.
C16_Monotone ==
    ret.status = "ok" => RatLeq(ret.value[1], ret.value[2])

\* an overdraft against a balance of zero: the score rises with the balance
C16_Witness ==
    /\ ret.status = "ok"
    /\ arg[1].avg_daily_balance_cents = -50000
    /\ arg[2].avg_daily_balance_cents = 0
    /\ arg[1].income_spend_ratio = Rat(1, 2)
    /\ arg[1].nsf_count = 0
    /\ RatLess(ret.value[1], ret.value[2])

DefaultConfiguration ==
    max_retries = webhook_max_retries /\ backoff_base = webhook_backoff_base

Answered(r) == pc[r] \in {"returning", "responded"}

\* C18: a failure raised by metrics reporting changes neither the outcome
\* of a decision request nor that of a webhook delivery: a request whose
\* decision was committed answers 200 with it, a bank fetch that failed
\* with BankAPIError answers 503, and no delivery ends by an exception of
\* the metrics registry instead of Delivered or DeliveryExhausted.
C18_MetricsFailureHarmless ==
    \A r \in Requests :
        /\ (Answered(r) /\ DecisionRows(r) # {}) => response[r].status_code = 200
        /\ (Answered(r) /\ get_transactions(bank[r]).status = "BankAPIError")
              => response[r].status_code = 503
        /\ delivery[r].state # "crashed"

FailedFetches == {"timeout", "http_error", "malformed", "connect_error"}

\* C19: every failed bank fetch, by timeout, HTTP error status, connection
\* error or malformed data, reaches the endpoint as BankAPIError and is
\* answered 503, and the request fetches once.
C19_FailedFetchIs503 ==
    \A r \in Requests :
        (Answered(r) /\ bank[r].kind \in FailedFetches) =>
            /\ get_transactions(bank[r]).status = "BankAPIError"
            /\ response[r].status_code = 503

Terminated(d) == d.state \in {"returned", "raised"}

\* The call has ended by success, or by exhaustion.
EndedBySuccessOrExhaustion(d) ==
    \/ d.state = "returned" /\ d.got_2xx
    \/ /\ d.state = "raised"
       /\ ~d.got_2xx
       /\ d.attempt = max_retries
       /\ d.posts = max_retries
       /\ d.last_error \in PostOutcomes \ {"2xx"}

C20_Terminates ==
    \A r \in Requests : delivery[r].state # "none" ~> Terminated(delivery[r])

C20_OnlyTwoExits ==
    \A r \in Requests :
        /\ delivery[r].state \in {"none", "ready", "posting", "sleeping", "returned", "raised"}
        /\ (max_retries >= 1 /\ Terminated(delivery[r]))
              => EndedBySuccessOrExhaustion(delivery[r])

C20_EndIsFinal ==
    \A r \in Requests : Terminated(delivery[r]) => delivery'[r] = delivery[r]

Granted(r) ==
    /\ Answered(r)
    /\ response[r].status_code = 200
    /\ response[r].approved
    /\ response[r].amount_granted_cents > 0

\* make_credit_decision on each history the bank can return, tabulated.
DecisionsByHistory ==
    [reply \in {b \in BankReplies : b.kind = "ok"} |->
        make_credit_decision(reply.transactions)]

\* The rows and the task of request r are its own: made from its body and
\* from the history the bank returned to it.
OwnDecision(r) ==
    DecisionRows(r) =
        { DecisionRow(r, request[r].user_id, request[r].amount_cents_requested,
                      DecisionsByHistory[bank[r]].value,
                      response[r].amount_granted_cents) }

OwnPlanAndDelivery(r) ==
    /\ Cardinality(PlanRows(r)) = 1
    /\ \A row \in PlanRows(r) :
          /\ row.user_id = request[r].user_id
          /\ row.total_cents = response[r].amount_granted_cents
    /\ delivery[r].state \notin {"none", "dropped"}
    /\ delivery[r].payload.decision_id = r
    /\ delivery[r].payload.user_id = request[r].user_id
    /\ delivery[r].payload.amount_cents = response[r].amount_granted_cents

\* A delivery uses its whole budget: it gives up only after max_retries
\* POSTs of its own, and while it has not ended its next step is enabled
\* whatever the other requests and deliveries do.
OwnRetryBudget(r) ==
    /\ delivery[r].state = "raised" => delivery[r].posts = max_retries
    /\ delivery[r].state \in {"ready", "posting", "sleeping"}
          => ENABLED (start_delivery(r) \/ post_completes(r) \/ sleep_completes(r))
    /\ pc[r] \in {"idle", "fetching", "returning"}
          => ENABLED (receive_request(r) \/ create_decision(r) \/ send_response(r))

\* C21: concurrent decision requests, of different users or of one user,
\* are processed independently under every interleaving: each request
\* answered 200 has persisted its own decision, each approved one also its
\* own plan and its own webhook delivery with the full budget of
\* max_retries attempts, the database holds exactly these rows, and no step
\* of a request or delivery waits for another.
C21_IndependentRequests ==
    /\ \A r \in Requests :
          /\ (Answered(r) /\ response[r].status_code = 200) => OwnDecision(r)
          /\ Granted(r) => OwnPlanAndDelivery(r)
          /\ OwnRetryBudget(r)
    /\ db = UNION { DecisionRows(r) \cup PlanRows(r) : r \in Requests }

\* two requests of one user for the same amount and with the same history,
\* both persisted and both deliveries exhausted after max_retries POSTs
C21_Witness ==
    /\ request[1] = request[2]
    /\ bank[1] = bank[2]
    /\ Granted(1) /\ Granted(2)
    /\ Cardinality(db) = 4
    /\ delivery[1].state = "raised" /\ delivery[1].posts = max_retries
    /\ delivery[2].state = "raised" /\ delivery[2].posts = max_retries

\* The request got the response of a handler that made a decision (200) or
\* found too little data to make one (422).
DecisionMade(r) == Answered(r) /\ response[r].status_code \in {200, 422}

\* the fields of the decision in the response and in the persisted row
DecisionFields(r) ==
    <<response[r].approved, response[r].credit_limit_cents,
      response[r].amount_granted_cents,
      { <<row.approved, row.credit_limit_cents, row.amount_granted_cents,
          row.score_numeric, row.score_band>> : row \in DecisionRows(r) }>>

RECURSIVE SumAt(_, _)
SumAt(s, idx) ==
    IF idx = {} THEN 0
    ELSE LET i == CHOOSE j \in idx : TRUE
         IN s[i].amount_cents + SumAt(s, idx \ {i})

Credits(s) == { i \in DOMAIN s : s[i].type = "credit" }
Debits(s) == { i \in DOMAIN s : s[i].type = "debit" }

\* C23: in every RiskFactors returned by analyze_transactions the total
\* income is the sum of the credit amounts, the total spend the sum of the
\* debit amounts, and the income/spend ratio is income divided by spend
\* when the spend is positive and exactly 0 otherwise.
C23_IncomeSpendRatio ==
    ret.status = "ok" =>
        LET income == SumAt(arg, Credits(arg))
            spend == SumAt(arg, Debits(arg))
            ratio == ret.value.income_spend_ratio
        IN /\ ret.value.total_income_cents = income
           /\ ret.value.total_spend_cents = spend
           /\ ratio[2] > 0
           /\ spend > 0 => ratio[1] * spend = ratio[2] * income
           /\ spend <= 0 => ratio = Rat(0, 1)

\* income without any spend: the ratio is 0, nothing was divided
C23_Witness ==
    /\ ret.status = "ok"
    /\ ret.value.total_income_cents > 0
    /\ ret.value.total_spend_cents = 0
    /\ ret.value.income_spend_ratio = Rat(0, 1)

\* The positions of the transactions dated d.
DatedAt(transactions, d) == { i \in DOMAIN transactions : transactions[i].date = d }

\* s2 holds the transactions of s1 in ascending date order, those of one
\* date in the order they have in s1.
StablySortedByDate(s1, s2) ==
    /\ Len(s2) = Len(s1)
    /\ \A i, j \in DOMAIN s2 : i < j => s2[i].date <= s2[j].date
    /\ \A d \in TxnDates(s1) :
          /\ Cardinality(DatedAt(s2, d)) = Cardinality(DatedAt(s1, d))
          /\ \A k \in 1..Cardinality(DatedAt(s1, d)) :
                s2[MinOf(DatedAt(s2, d)) + k - 1]
                    = s1[CHOOSE i \in DatedAt(s1, d) :
                            Cardinality({ j \in DatedAt(s1, d) : j <= i }) = k]

\* C26: when several transactions share a date, the balance
\* analyze_transactions records for the date is that of the last of them in
\* the date-sorted order, and the sort being stable and by date only, that
\* of the last of them in the input order; a list of one date therefore
\* has the balance of its last element as its average daily balance.
C26_LastOfDateInInputOrder ==
    ret.status = "ok" =>
        /\ StablySortedByDate(arg, sorted_txns(arg))
        /\ DOMAIN balance_by_date(sorted_txns(arg)) = TxnDates(arg)
        /\ \A d \in TxnDates(arg) :
              /\ balance_by_date(sorted_txns(arg))[d]
                    = sorted_txns(arg)[MaxOf(DatedAt(sorted_txns(arg), d))].balance_cents
              /\ balance_by_date(sorted_txns(arg))[d]
                    = arg[MaxOf(DatedAt(arg, d))].balance_cents
        /\ Cardinality(TxnDates(arg)) = 1 =>
              ret.value.avg_daily_balance_cents = arg[Len(arg)].balance_cents

\* three transactions of one date with three balances: the last one given
\* is the balance of the day
C26_Witness ==
    /\ ret.status = "ok"
    /\ Len(arg) = 3
    /\ Cardinality(TxnDates(arg)) = 1
    /\ arg[1].balance_cents = 120000
    /\ arg[2].balance_cents = -50000
    /\ arg[3].balance_cents = 45000
    /\ ret.value.avg_daily_balance_cents = 45000

\* The rearrangements of the list s.
PermutationsOf(s) ==
    { [i \in DOMAIN s |-> s[f[i]]] :
        f \in { g \in [DOMAIN s -> DOMAIN s] : \A i, j \in DOMAIN s : g[i] = g[j] => i = j } }

\* the fields of RiskFactors that count or add up the transactions
Tallies(risk_factors) ==
    <<risk_factors.total_income_cents, risk_factors.total_spend_cents,
      risk_factors.nsf_count, risk_factors.transaction_count,
      risk_factors.days_with_transactions>>

\* C30: analyze_transactions returns the same RiskFactors for every
\* rearrangement of a list in which no two transactions share a date, and
\* for every list the same total income, total spend, NSF count,
\* transaction count and number of distinct active days for every
\* rearrangement.
C30_OrderIndependent ==
    ret.status = "ok" =>
        \A p \in PermutationsOf(arg) :
            /\ analyze_transactions(p).status = "ok"
            /\ Tallies(analyze_transactions(p).value) = Tallies(ret.value)
            /\ Cardinality(TxnDates(arg)) = Len(arg) => analyze_transactions(p) = ret

\* three transactions of three dates given latest first, with an overdraft
C30_Witness ==
    /\ ret.status = "ok"
    /\ Len(arg) = 3
    /\ arg[1].date = 2 /\ arg[2].date = 1 /\ arg[3].date = 0
    /\ arg[1].balance_cents # arg[2].balance_cents
    /\ arg[2].balance_cents # arg[3].balance_cents
    /\ ret.value.nsf_count > 0
    /\ ret.value = analyze_transactions(<<arg[3], arg[2], arg[1]>>).value

\* C24: a decision request answered 200 has a persisted plan, a non-null
\* plan_id and a scheduled webhook exactly when its decision is approved
\* with a granted amount > 0; a declined one is answered with approved
\* false, credit limit 0, granted amount 0 and plan_id null, its decision
\* is persisted, no plan is, and no webhook is scheduled.
C24_PlanExactlyWhenGranted ==
    \A r \in Requests :
        (Answered(r) /\ response[r].status_code = 200) =>
            /\ (PlanRows(r) # {}) <=> Granted(r)
            /\ (response[r].plan_id # None) <=> Granted(r)
            /\ (delivery[r].state # "none") <=> Granted(r)
            /\ Granted(r) =>
                  /\ \A row \in PlanRows(r) : response[r].plan_id = Some(row.id)
                  /\ delivery[r].state # "dropped"
                  /\ delivery[r].payload.plan_id = response[r].plan_id[1]
            /\ ~response[r].approved =>
                  /\ response[r].credit_limit_cents = 0
                  /\ response[r].amount_granted_cents = 0
                  /\ response[r].plan_id = None
                  /\ PlanRows(r) = {}
                  /\ delivery[r] = NoTask
                  /\ \E row \in DecisionRows(r) :
                        ~row.approved /\ row.amount_granted_cents = 0

\* one request approved with its plan and its webhook delivered, another
\* declined with only its decision persisted
C24_Witness ==
    /\ pc[1] = "responded" /\ pc[2] = "responded"
    /\ Granted(1)
    /\ PlanRows(1) # {}
    /\ delivery[1].state = "returned" /\ delivery[1].got_2xx
    /\ response[2].status_code = 200
    /\ ~response[2].approved
    /\ DecisionRows(2) # {}
    /\ PlanRows(2) = {}
    /\ delivery[2] = NoTask

\* The decision rows a plan row refers to.
DecisionOfPlan(plan) ==
    { row \in db : row.table = "bnpl_decision" /\ row.id = plan.decision_id }

\* a persisted plan: the granted amount of its decision in 4 installments,
\* 14 days from one to the next
WellFormedPlan(plan) ==
    /\ Cardinality(DecisionOfPlan(plan)) = 1
    /\ \A decision \in DecisionOfPlan(plan) :
          plan.total_cents = decision.amount_granted_cents
    /\ Len(plan.installments) = 4
    /\ SumSeq(PlanAmounts(plan.installments)) = plan.total_cents
    /\ \A j \in 1..3 :
          plan.installments[j + 1].due_date = plan.installments[j].due_date + 14

\* the response of a GET is the plan row: its key, user and total, and its
\* installments, each once, with due date, amount and status
ReturnsPlan(got, plan) ==
    /\ got.status_code = 200
    /\ got.plan_id = plan.id
    /\ got.user_id = plan.user_id
    /\ got.total_cents = plan.total_cents
    /\ Len(got.installments) = Len(plan.installments)
    /\ { got.installments[i] : i \in DOMAIN got.installments }
          = { [due_date |-> plan.installments[i].due_date,
               amount_cents |-> plan.installments[i].amount_cents,
               status |-> "scheduled"] : i \in DOMAIN plan.installments }

C27_ReturnsOnlyAfter2xx ==
    \A r \in Requests :
        delivery[r].state = "returned" =>
            /\ delivery[r].got_2xx
            /\ delivery[r].posts >= 1

\* C28: a decision request that ended in an error response (503, 422 or
\* 500) has left no decision, plan or installment row persisted and no
\* webhook is delivered for it; and a decision that grants an amount is
\* persisted with its plan or not at all.
C28_ErrorLeavesNothing ==
    \A r \in Requests :
        /\ (Answered(r) /\ response[r].status_code \in {503, 422, 500}) =>
              /\ DecisionRows(r) = {}
              /\ PlanRows(r) = {}
              /\ delivery[r].state \in {"none", "added", "dropped"}
        /\ (PlanRows(r) # {}) <=>
              (\E row \in DecisionRows(r) : row.approved /\ row.amount_granted_cents > 0)

\* The delivery of request r has been started by the event loop.
Running(r) == delivery[r].state \in {"ready", "posting", "sleeping", "returned", "raised"}

\* C29: no webhook POST is made, and no delivery task is started, for a
\* decision unless the transaction holding the decision and its plan has
\* committed; a task added before a db.commit() that failed never runs.
C29_NoDeliveryWithoutCommit ==
    \A r \in Requests :
        /\ (Running(r) \/ (delivery[r].state # "none" /\ delivery[r].posts > 0)) =>
              /\ session[r] = "committed"
              /\ DecisionRows(r) # {}
              /\ PlanRows(r) # {}
              /\ delivery[r].payload.decision_id = r
        /\ (delivery[r].state # "none" /\ session[r] # "committed") =>
              /\ delivery[r].state \in {"added", "dropped"}
              /\ delivery[r].posts = 0
              /\ pc[r] = "responded" => delivery[r].state = "dropped"

\* the task of an approved request was added, the commit failed, the request
\* was answered 500 and the task was never run; the other request's
\* delivery ran to its end meanwhile
C29_Witness ==
    /\ pc[1] = "responded"
    /\ response[1].status_code = 500
    /\ session[1] = "rolled back"
    /\ delivery[1].state = "dropped"
    /\ delivery[1].posts = 0
    /\ DecisionRows(1) = {} /\ PlanRows(1) = {}
    /\ Granted(2)
    /\ delivery[2].state = "returned"

====
